---------------------------- MODULE Spec2Model ----------------------------
(***************************************************************************)
(* Soft Actor-Critic (mushroom/algorithms/actor_critic/sac.py).            *)
(*                                                                         *)
(* The model follows SAC.__init__ and SAC.fit statement by statement: pc   *)
(* is the position inside the constructor or inside one fit call.  Real    *)
(* numbers are exact rationals <<num, den>> (den > 0, lowest terms), so    *)
(* tau * online + (1 - tau) * target is computed as written.  Every        *)
(* approximator is a network with a single weight; the critic ensemble is  *)
(* a sequence of such weights, one per member.                             *)
(*                                                                         *)
(* ReplayMemory, Regressor, the optimizers and the ReparametrizationAC     *)
(* base class live outside sac.py; they are modelled from their contracts  *)
(* in spec.md (sections 4.2, 4.3, 6).                                      *)
(***************************************************************************)
EXTENDS Integers, Sequences, FiniteSets, TLC

VARIABLES
    pc,            \* position in SAC.__init__ / SAC.fit
    cfg,           \* constructor arguments (tau, gamma, replay sizes, ...)
    critic_params, \* the caller's critic_params dict (n_models, prediction)
    critic,        \* self._critic_approximator: [weights, prediction]
    target,        \* self._target_critic_approximator: [weights, prediction]
    actor,         \* policy approximators' weights: <<mu, sigma>>
    log_alpha,     \* self._log_alpha
    replay,        \* self._replay_memory: size
    batch,         \* fit local: sampled rows
    log_prob,      \* fit local: log_prob of action_new, per row
    loss,          \* fit local: actor loss
    next_sample,   \* _next_q local: (a, log_prob_next) per row
    q,             \* fit local: regression target per row
    trace,         \* sub-updates done so far in the current/latest fit call
    earlier,       \* sub-updates done by some fit call before the latest one
    target0,       \* target weights when the constructor returned
    fits           \* number of fit calls started

vars == <<pc, cfg, critic_params, critic, target, actor,
          log_alpha, replay, batch, log_prob, loss, next_sample, q, trace,
          earlier, target0, fits>>

---------------------------------------------------------------------------
(* Bound of the model: the number of fit calls *)
MaxFits == 2

(* Fixed inputs: max_replay_size, batch_size, mdp_info.action_space *)
MaxReplay == 3
BatchSize == 2
ActionDim == 1
MinA == -1
MaxA == 1

(* Input domains *)
Taus == {<<0, 1>>, <<1, 2>>, <<1, 1>>}
Gammas == {<<1, 2>>}
InitialSizes == {2}
Warmups == {0, 2, MaxReplay}
NModels == {0, 1, 2, 3}                 \* 0: key absent
Predictions == {"absent", "min", "mean"}
InitWeights == {0, 1}
Noise == {0, 1}
Transition == [reward : {0, 1}, absorbing : {0, 1}]
Rows == 1..BatchSize
DataSizes == {0, 1, 2}

---------------------------------------------------------------------------
(* Exact rational arithmetic *)
Abs(x) == IF x < 0 THEN -x ELSE x

Sign(x) == IF x < 0 THEN -1 ELSE IF x > 0 THEN 1 ELSE 0

RECURSIVE GCD(_, _)
GCD(a, b) == IF b = 0 THEN a ELSE GCD(b, a % b)

RNorm(n, d) ==
    LET g == GCD(Abs(n), Abs(d))
        s == IF d < 0 THEN -1 ELSE 1
    IN  <<(s * n) \div g, (s * d) \div g>>

R(i) == <<i, 1>>
RAdd(a, b) == RNorm(a[1] * b[2] + b[1] * a[2], a[2] * b[2])
RSub(a, b) == RNorm(a[1] * b[2] - b[1] * a[2], a[2] * b[2])
RMul(a, b) == RNorm(a[1] * b[1], a[2] * b[2])
RDivInt(a, n) == RNorm(a[1], a[2] * n)
RDiv(a, b) == RNorm(a[1] * b[2], a[2] * b[1])
RLe(a, b) == a[1] * b[2] <= b[1] * a[2]
RMin(a, b) == IF RLe(a, b) THEN a ELSE b

RECURSIVE Pow2(_)
Pow2(k) == IF k = 0 THEN 1 ELSE 2 * Pow2(k - 1)

RECURSIVE RSum(_)
RSum(s) == IF s = <<>> THEN R(0) ELSE RAdd(Head(s), RSum(Tail(s)))

RMean(s) == RDivInt(RSum(s), Len(s))

---------------------------------------------------------------------------
(* Collaborators outside sac.py, from their contracts in spec.md *)

ReplayAddUnbounded(size, n) == size + n

\* ReplayMemory.add: bounded store, the size saturates at max_replay_size
ReplayAdd(size, n) ==
    IF size + n > cfg.max_replay_size THEN cfg.max_replay_size ELSE size + n

\* ReplayMemory.initialized: the minimum size has been reached
ReplayInitialized(size) == size >= cfg.initial_replay_size

\* Regressor(TorchApproximator, **params): n_models independently
\* initialised members, with the ensemble's prediction mode
Regressors(params) ==
    { [weights |-> w, prediction |-> params.prediction] :
        w \in [1..params.n_models -> {<<i, 1>> : i \in InitWeights}] }

Unbuilt == [weights |-> <<>>, prediction |-> "none"]

\* model[i] evaluated at an action: a one-weight network
Member(w, a) == RAdd(w, a)

RECURSIVE RMinSeq(_)
RMinSeq(s) == IF Len(s) = 1 THEN s[1] ELSE RMin(Head(s), RMinSeq(Tail(s)))

\* Regressor.predict without idx: the ensemble's reduction over its members
Predict(ens, a) ==
    LET outs == [i \in 1..Len(ens.weights) |-> Member(ens.weights[i], a)]
    IN  IF ens.prediction = "min" THEN RMinSeq(outs) ELSE RMean(outs)

\* Regressor.fit: one regression step, which moves every member's weights
\* (member i by d * i)
FitSteps == {-1, 1}
RegressorFit(ens, d) ==
    [ens EXCEPT !.weights = [i \in DOMAIN ens.weights |->
                                RAdd(ens.weights[i], R(d * i))]]

\* ReparametrizationAC._optimize_actor_parameters: one optimizer step,
\* which moves the parameters of the mean and log-scale approximators
ActorSteps == {<<1, -1>>, <<-1, 1>>}
OptimizeActorParameters(a, g) == <<a[1] + g[1], a[2] + g[2]>>

\* exp, tanh and log on the rationals: 2^k, x / (1 + |x|), floor(log2 x)
Exp(k) == IF k >= 0 THEN <<Pow2(k), 1>> ELSE <<1, Pow2(-k)>>

Tanh(x) == RNorm(x[1], x[2] + Abs(x[1]))

RECURSIVE CeilLog2(_)
CeilLog2(c) == IF c <= 1 THEN 0 ELSE 1 + CeilLog2((c + 1) \div 2)

RECURSIVE FloorLog2(_)
FloorLog2(c) == IF c <= 1 THEN 0 ELSE 1 + FloorLog2(c \div 2)

Log(x) ==
    IF x[1] >= x[2] THEN FloorLog2(x[1] \div x[2])
    ELSE -CeilLog2((x[2] + x[1] - 1) \div x[1])

---------------------------------------------------------------------------
(* SACPolicy *)

DeltaANoHalf(min_a, max_a) == R(max_a - min_a)

\* __init__, lines 42-43
DeltaA(min_a, max_a) == RDivInt(R(max_a - min_a), 2)
CentralA(min_a, max_a) == RDivInt(R(max_a + min_a), 2)

delta_a == DeltaA(MinA, MaxA)
central_a == CentralA(MinA, MaxA)

\* distribution: Normal(loc = mu(state), scale = exp(log_sigma(state)))
Distribution(a) == [loc |-> R(a[1]), scale |-> Exp(a[2])]

\* Normal.sample() with standard noise eps: loc + scale * eps
Sample(dist, eps) == RAdd(dist.loc, RMul(dist.scale, R(eps)))

\* Normal.log_prob(x): -((x - loc) / scale)^2 / 2 - log(scale), up to the
\* additive constant -log(sqrt(2 pi))
NormalLogProb(dist, x) ==
    LET z == RDiv(RSub(x, dist.loc), dist.scale)
    IN  RSub(RDivInt(RSub(R(0), RMul(z, z)), 2), R(Log(dist.scale)))

\* log(1. - a.pow(2) + 1e-6)
SquashCorrection(sq) ==
    R(Log(RAdd(RSub(R(1), RMul(sq, sq)), <<1, 1000000>>)))

ComputeNoCorrection(a, eps, min_a, max_a) ==
    LET dist == Distribution(a)
        a_raw == Sample(dist, eps)
        sq == Tanh(a_raw)
    IN  <<RAdd(RMul(sq, DeltaA(min_a, max_a)), CentralA(min_a, max_a)),
          NormalLogProb(dist, a_raw)>>

\* compute_action_and_log_prob_t for one row of a policy with the action
\* bounds min_a, max_a; eps is the standard noise of the row's sample
ComputeActionAndLogProbT(a, eps, min_a, max_a) ==
    LET dist == Distribution(a)
        a_raw == Sample(dist, eps)
        sq == Tanh(a_raw)
        a_true == RAdd(RMul(sq, DeltaA(min_a, max_a)), CentralA(min_a, max_a))
        log_p == RSub(NormalLogProb(dist, a_raw), SquashCorrection(sq))
    IN  <<a_true, log_p>>

\* the policy of the agent: bounds mdp_info.action_space.low / high
ComputeActionAndLogProb(a, eps) ==
    ComputeActionAndLogProbT(a, eps, MinA, MaxA)

\* draw_action: compute_log_prob = False
DrawAction(a, eps, min_a, max_a) ==
    ComputeActionAndLogProbT(a, eps, min_a, max_a)[1]

\* Which policy parameters a tensor is attached to in the autograd graph.
\* mu and log_sigma come from predict(state, output_tensor=True) and are
\* attached to their networks; Normal.sample() draws under no_grad, so its
\* result is attached to nothing; tanh, *, + and log_prob pass on what
\* their arguments are attached to.
PolicyParams == {"mu", "sigma"}

SampleGrad(dist_grad) == {}

ActionGrad == SampleGrad(PolicyParams)

LogProbGrad == PolicyParams \cup ActionGrad

---------------------------------------------------------------------------
(* SAC *)

Alpha(la) == Exp(la)

target_entropy == -ActionDim

InLearningAfterInitial(size) ==
    size > cfg.initial_replay_size + cfg.warmup_transitions

InLearningReversed(size) == size < cfg.warmup_transitions

\* fit, line 164
InLearning(size) == size > cfg.warmup_transitions

InitTargetOffByOne(tgt, onl) ==
    [tgt EXCEPT !.weights = [i \in DOMAIN tgt.weights |->
        IF i \in 1..(Len(onl.weights) - 1) THEN onl.weights[i]
        ELSE tgt.weights[i]]]

\* _init_target
InitTarget(tgt, onl) ==
    [tgt EXCEPT !.weights = [i \in DOMAIN tgt.weights |->
        IF i \in 1..Len(onl.weights) THEN onl.weights[i] ELSE tgt.weights[i]]]

UpdateTargetFirstMember(tgt, onl, tau) ==
    [tgt EXCEPT !.weights = [i \in DOMAIN tgt.weights |->
        RAdd(RMul(tau, onl.weights[1]),
             RMul(RSub(R(1), tau), tgt.weights[i]))]]

UpdateTargetSwapped(tgt, onl, tau) ==
    [tgt EXCEPT !.weights = [i \in DOMAIN tgt.weights |->
        RAdd(RMul(RSub(R(1), tau), onl.weights[i]),
             RMul(tau, tgt.weights[i]))]]

\* _update_target
UpdateTarget(tgt, onl, tau) ==
    [tgt EXCEPT !.weights = [i \in DOMAIN tgt.weights |->
        RAdd(RMul(tau, onl.weights[i]),
             RMul(RSub(R(1), tau), tgt.weights[i]))]]

\* _loss: mean(alpha * log_prob - min(q_0, q_1)) with idx = 0 and idx = 1
Loss(onl, la, action_new, lp) ==
    RMean([i \in Rows |->
        RSub(RMul(Alpha(la), lp[i]),
             RMin(Member(onl.weights[1], action_new[i]),
                  Member(onl.weights[2], action_new[i])))])

\* _update_alpha: one step down the gradient of
\* -mean(log_alpha * (log_prob + target_entropy)) in log_alpha
UpdateAlpha(la, lp) ==
    LET grad == RSub(R(0), RMean([i \in Rows |->
                                     RAdd(lp[i], R(target_entropy))]))
    IN  la - Sign(grad[1])

NextQUnmasked(tgt, la, smp, absorbing) ==
    RSub(Predict(tgt, smp[1]), RMul(Alpha(la), smp[2]))

\* _next_q, one row: (predict - alpha * log_prob_next) * (1 - absorbing)
NextQ(tgt, la, smp, absorbing) ==
    RMul(RSub(Predict(tgt, smp[1]), RMul(Alpha(la), smp[2])),
         R(1 - absorbing))

\* fit, line 171
Target(reward, gamma, q_next) == RAdd(R(reward), RMul(gamma, q_next))

\* the loss tensor of fit: its value, and the policy parameters it is
\* attached to through alpha * log_prob and through min(q_0, q_1)
LossTensor(onl, la, action_new, lp) ==
    [value |-> Loss(onl, la, action_new, lp),
     grad_log_prob |-> LogProbGrad,
     grad_q |-> ActionGrad]

NoRows == <<>>
NoLoss == [value |-> R(0), grad_log_prob |-> {}, grad_q |-> {}]

Init ==
    /\ pc = "new"
    /\ cfg \in [tau : Taus, gamma : Gammas,
                initial_replay_size : InitialSizes,
                warmup_transitions : Warmups,
                max_replay_size : {MaxReplay}]
    /\ critic_params \in [n_models : NModels, prediction : Predictions]
    /\ critic = Unbuilt
    /\ target = Unbuilt
    /\ actor = <<>>
    /\ log_alpha = 0
    /\ replay = 0
    /\ batch = NoRows
    /\ log_prob = NoRows
    /\ loss = NoLoss
    /\ next_sample = NoRows
    /\ q = NoRows
    /\ trace = <<>>
    /\ earlier = {}
    /\ target0 = <<>>
    /\ fits = 0

FitLocals == <<batch, log_prob, loss, next_sample, q>>
History == <<trace, earlier, target0, fits>>

ParamsAcceptedUnchecked(p) == TRUE

\* __init__, lines 123-131: the asserts on, or defaults of, critic_params
ParamsAccepted(p) ==
    /\ p.n_models \in {0, 2}
    /\ p.prediction \in {"absent", "min"}

CtorCriticParams ==
    /\ pc = "new"
    /\ IF ParamsAccepted(critic_params)
       THEN /\ critic_params' =
                 [n_models |-> IF critic_params.n_models = 0
                               THEN 2 ELSE critic_params.n_models,
                  prediction |-> IF critic_params.prediction = "absent"
                                 THEN "min" ELSE critic_params.prediction]
            /\ pc' = "build_critic"
       ELSE /\ pc' = "AssertionError"
            /\ UNCHANGED critic_params
    /\ UNCHANGED <<cfg, critic, target, actor, log_alpha, replay,
                   FitLocals, History>>

\* __init__, lines 133-135
CtorCritic ==
    /\ pc = "build_critic"
    /\ critic' \in Regressors(critic_params)
    /\ pc' = "build_target"
    /\ UNCHANGED <<cfg, critic_params, target, actor, log_alpha, replay,
                   FitLocals, History>>

\* __init__, lines 136-137: target_critic_params is a deepcopy
CtorTargetCritic ==
    /\ pc = "build_target"
    /\ target' \in Regressors(critic_params)
    /\ pc' = "build_actor"
    /\ UNCHANGED <<cfg, critic_params, critic, actor, log_alpha, replay,
                   FitLocals, History>>

\* __init__, lines 139-150
CtorActor ==
    /\ pc = "build_actor"
    /\ log_alpha' = 0
    /\ actor' = <<0, 0>>
    /\ pc' = "init_target"
    /\ UNCHANGED <<cfg, critic_params, critic, target, replay,
                   FitLocals, History>>

\* __init__, lines 152-156
CtorInitTarget ==
    /\ pc = "init_target"
    /\ target' = InitTarget(target, critic)
    /\ target0' = target'.weights
    /\ pc' = "idle"
    /\ UNCHANGED <<cfg, critic_params, critic, actor, log_alpha, replay,
                   FitLocals, trace, earlier, fits>>

Range(s) == {s[i] : i \in DOMAIN s}

FitAddCheckFirst(n, limit) ==
    /\ pc = "idle"
    /\ fits < limit
    /\ fits' = fits + 1
    /\ replay' = ReplayAdd(replay, n)
    /\ earlier' = earlier \cup Range(trace)
    /\ trace' = <<>>
    /\ pc' = IF ReplayInitialized(replay) THEN "get" ELSE "idle"
    /\ UNCHANGED <<cfg, critic_params, critic, target, actor, log_alpha,
                   FitLocals, target0>>

FitAddNoReturn(n) ==
    /\ pc = "idle"
    /\ fits < MaxFits
    /\ fits' = fits + 1
    /\ replay' = ReplayAdd(replay, n)
    /\ earlier' = earlier \cup Range(trace)
    /\ trace' = <<>>
    /\ pc' = "get"
    /\ UNCHANGED <<cfg, critic_params, critic, target, actor, log_alpha,
                   FitLocals, target0>>

\* fit, lines 159-160: add the dataset, return unless initialized; the
\* number of calls of a behaviour is kept below limit
FitAddBounded(n, limit) ==
    /\ pc = "idle"
    /\ fits < limit
    /\ fits' = fits + 1
    /\ replay' = ReplayAdd(replay, n)
    /\ earlier' = earlier \cup Range(trace)
    /\ trace' = <<>>
    /\ pc' = IF ReplayInitialized(replay') THEN "get" ELSE "idle"
    /\ UNCHANGED <<cfg, critic_params, critic, target, actor, log_alpha,
                   FitLocals, target0>>

\* a fit call of the agent's training run
FitAdd(n) == FitAddBounded(n, MaxFits)

FitGetNoWarmup ==
    /\ pc = "get"
    /\ batch' \in [Rows -> Transition]
    /\ pc' = "actor"
    /\ UNCHANGED <<cfg, critic_params, critic, target, actor, log_alpha,
                   replay, log_prob, loss, next_sample, q, History>>

\* fit, lines 161-164
FitGet ==
    /\ pc = "get"
    /\ batch' \in [Rows -> Transition]
    /\ pc' = IF InLearning(replay) THEN "actor" ELSE "next_q"
    /\ UNCHANGED <<cfg, critic_params, critic, target, actor, log_alpha,
                   replay, log_prob, loss, next_sample, q, History>>

FitActorThenNextQ ==
    /\ pc = "actor"
    /\ \E eps \in [Rows -> Noise], g \in ActorSteps :
         LET smp == [i \in Rows |-> ComputeActionAndLogProb(actor, eps[i])]
             action_new == [i \in Rows |-> smp[i][1]]
         IN  /\ log_prob' = [i \in Rows |-> smp[i][2]]
             /\ loss' = LossTensor(critic, log_alpha, action_new, log_prob')
             /\ actor' = OptimizeActorParameters(actor, g)
    /\ trace' = Append(trace, "actor")
    /\ pc' = "next_q"
    /\ UNCHANGED <<cfg, critic_params, critic, target, log_alpha, replay,
                   batch, next_sample, q, earlier, target0, fits>>

\* fit, lines 165-167
FitActor ==
    /\ pc = "actor"
    /\ \E eps \in [Rows -> Noise], g \in ActorSteps :
         LET smp == [i \in Rows |-> ComputeActionAndLogProb(actor, eps[i])]
             action_new == [i \in Rows |-> smp[i][1]]
         IN  /\ log_prob' = [i \in Rows |-> smp[i][2]]
             /\ loss' = LossTensor(critic, log_alpha, action_new, log_prob')
             /\ actor' = OptimizeActorParameters(actor, g)
    /\ trace' = Append(trace, "actor")
    /\ pc' = "alpha"
    /\ UNCHANGED <<cfg, critic_params, critic, target, log_alpha, replay,
                   batch, next_sample, q, earlier, target0, fits>>

FitAlphaResample ==
    /\ pc = "alpha"
    /\ \E eps \in [Rows -> Noise] :
         log_alpha' = UpdateAlpha(log_alpha,
             [i \in Rows |-> ComputeActionAndLogProb(actor, eps[i])[2]])
    /\ trace' = Append(trace, "alpha")
    /\ pc' = "next_q"
    /\ log_prob' = NoRows
    /\ loss' = NoLoss
    /\ UNCHANGED <<cfg, critic_params, critic, target, actor, replay,
                   batch, next_sample, q, earlier, target0, fits>>

\* fit, line 168; loss and log_prob are not read after it
FitAlpha ==
    /\ pc = "alpha"
    /\ log_alpha' = UpdateAlpha(log_alpha, log_prob)
    /\ trace' = Append(trace, "alpha")
    /\ pc' = "next_q"
    /\ log_prob' = NoRows
    /\ loss' = NoLoss
    /\ UNCHANGED <<cfg, critic_params, critic, target, actor, replay,
                   batch, next_sample, q, earlier, target0, fits>>

FitNextQAfterSoftUpdate ==
    /\ pc = "next_q"
    /\ \E eps \in [Rows -> Noise] :
         /\ next_sample' = [i \in Rows |->
                               ComputeActionAndLogProb(actor, eps[i])]
         /\ q' = [i \in Rows |->
                    Target(batch[i].reward, cfg.gamma,
                           NextQ(UpdateTarget(target, critic, cfg.tau),
                                 log_alpha, next_sample'[i],
                                 batch[i].absorbing))]
    /\ pc' = "critic"
    /\ UNCHANGED <<cfg, critic_params, critic, target, actor, log_alpha,
                   replay, batch, log_prob, loss, History>>

\* fit, lines 170-171
FitNextQ ==
    /\ pc = "next_q"
    /\ \E eps \in [Rows -> Noise] :
         /\ next_sample' = [i \in Rows |->
                               ComputeActionAndLogProb(actor, eps[i])]
         /\ q' = [i \in Rows |->
                    Target(batch[i].reward, cfg.gamma,
                           NextQ(target, log_alpha, next_sample'[i],
                                 batch[i].absorbing))]
    /\ pc' = "critic"
    /\ UNCHANGED <<cfg, critic_params, critic, target, actor, log_alpha,
                   replay, batch, log_prob, loss, History>>

FitCriticBothEnsembles ==
    /\ pc = "critic"
    /\ \E d \in FitSteps :
         /\ critic' = RegressorFit(critic, d)
         /\ target' = RegressorFit(target, d)
    /\ trace' = Append(trace, "critic")
    /\ pc' = "target"
    /\ batch' = NoRows
    /\ next_sample' = NoRows
    /\ q' = NoRows
    /\ UNCHANGED <<cfg, critic_params, actor, log_alpha, replay,
                   log_prob, loss, earlier, target0, fits>>

\* fit, lines 173-174; the batch and q are not read after it
FitCritic ==
    /\ pc = "critic"
    /\ \E d \in FitSteps :
         critic' = RegressorFit(critic, d)
    /\ trace' = Append(trace, "critic")
    /\ pc' = "target"
    /\ batch' = NoRows
    /\ next_sample' = NoRows
    /\ q' = NoRows
    /\ UNCHANGED <<cfg, critic_params, target, actor, log_alpha, replay,
                   log_prob, loss, earlier, target0, fits>>

\* fit, line 176, and the return
FitTarget ==
    /\ pc = "target"
    /\ target' = UpdateTarget(target, critic, cfg.tau)
    /\ trace' = Append(trace, "target")
    /\ pc' = "idle"
    /\ UNCHANGED <<cfg, critic_params, critic, actor, log_alpha, replay,
                   FitLocals, earlier, target0, fits>>

Next ==
    \/ CtorCriticParams
    \/ CtorCritic
    \/ CtorTargetCritic
    \/ CtorActor
    \/ CtorInitTarget
    \/ \E n \in DataSizes : FitAdd(n)
    \/ FitGet
    \/ FitActor
    \/ FitAlpha
    \/ FitNextQ
    \/ FitCritic
    \/ FitTarget

Spec == Init /\ [][Next]_vars

---------------------------------------------------------------------------
(* fit with a failing sub-step: fit has no try / except / finally, so an
   exception raised by a sub-step ends the call where it is raised *)

\* the members of an ensemble built by a constructor that returned
Members == {1, 2}

Failing == {"get", "actor", "alpha", "next_q", "critic", "target"}
RaisedAt == [get |-> "raised_get", actor |-> "raised_actor",
             alpha |-> "raised_alpha", next_q |-> "raised_next_q",
             critic |-> "raised_critic", target |-> "raised_target"]
RaisedPcs == {RaisedAt[p] : p \in Failing}

\* what a loop over the members of ens leaves when it stops before
\* member k: the members before k are as in done, the others as in ens
Partial(ens, done, k) ==
    [ens EXCEPT !.weights = [i \in DOMAIN ens.weights |->
        IF i < k THEN done.weights[i] ELSE ens.weights[i]]]

FitRaiseFinally ==
    /\ pc \in Failing
    /\ pc' = RaisedAt[pc]
    /\ critic' = critic
    /\ target' = UpdateTarget(target, critic, cfg.tau)
    /\ trace' = Append(trace, "raise")
    /\ batch' = NoRows
    /\ log_prob' = NoRows
    /\ loss' = NoLoss
    /\ next_sample' = NoRows
    /\ q' = NoRows
    /\ UNCHANGED <<cfg, critic_params, actor, log_alpha, replay, earlier,
                   target0, fits>>

\* fit, lines 161-176: the sub-step at pc raises. The sampling, loss and
\* optimizer sub-steps raise before they write; the critic fit and the
\* soft update, which go through the members one by one, may have written
\* the first member. The locals of the call are gone with its frame.
FitRaise ==
    /\ pc \in Failing
    /\ pc' = RaisedAt[pc]
    /\ IF pc = "critic"
       THEN \E d \in FitSteps, k \in Members :
                critic' = Partial(critic, RegressorFit(critic, d), k)
       ELSE critic' = critic
    /\ IF pc = "target"
       THEN \E k \in Members :
                target' = Partial(target,
                                  UpdateTarget(target, critic, cfg.tau), k)
       ELSE target' = target
    /\ trace' = Append(trace, "raise")
    /\ batch' = NoRows
    /\ log_prob' = NoRows
    /\ loss' = NoLoss
    /\ next_sample' = NoRows
    /\ q' = NoRows
    /\ UNCHANGED <<cfg, critic_params, actor, log_alpha, replay, earlier,
                   target0, fits>>

NextRaise ==
    \/ Next
    \/ FitRaise

SpecRaise == Init /\ [][NextRaise]_vars

---------------------------------------------------------------------------
(* A training run that keeps feeding non-empty datasets, for every order
   of initial_replay_size, warmup_transitions and max_replay_size *)

FeedSizes == DataSizes \ {0}
FeedInitialSizes == {MaxReplay - 1, MaxReplay + 1}
FeedWarmups == {0, MaxReplay - 1, MaxReplay, MaxReplay + 1}
FeedLimit == MaxReplay

\* the transitions fed: no reward, not absorbing
FeedRows ==
    batch \in {NoRows, [i \in Rows |-> [reward |-> 0, absorbing |-> 0]]}

InitFeed ==
    /\ pc = "new"
    /\ cfg \in [tau : {R(1)}, gamma : Gammas,
                initial_replay_size : FeedInitialSizes,
                warmup_transitions : FeedWarmups,
                max_replay_size : {MaxReplay}]
    /\ critic_params \in [n_models : {0, 2}, prediction : {"min"}]
    /\ critic = Unbuilt
    /\ target = Unbuilt
    /\ actor = <<>>
    /\ log_alpha = 0
    /\ replay = 0
    /\ batch = NoRows
    /\ log_prob = NoRows
    /\ loss = NoLoss
    /\ next_sample = NoRows
    /\ q = NoRows
    /\ trace = <<>>
    /\ earlier = {}
    /\ target0 = <<>>
    /\ fits = 0

FeedAdd == \E n \in FeedSizes : FitAddBounded(n, FeedLimit)

FeedGet == FitGet /\ FeedRows'

NextFeed ==
    \/ CtorCriticParams
    \/ CtorCritic
    \/ CtorTargetCritic
    \/ CtorActor
    \/ CtorInitTarget
    \/ FeedAdd
    \/ FeedGet
    \/ FitActor
    \/ FitAlpha
    \/ FitNextQ
    \/ FitCritic
    \/ FitTarget

\* the position of the run: where the program is and the calls made
Position == <<pc, fits>>

FeedPcs == {"new", "AssertionError", "build_critic", "build_target",
            "build_actor", "init_target", "idle", "get", "actor", "alpha",
            "next_q", "critic", "target"}

\* the run moves on: the constructor has not failed, and a statement of
\* the constructor or of a fit call is next or the caller has a call left
FeedAdvance ==
    /\ pc # "AssertionError"
    /\ pc = "idle" => fits < FeedLimit
    /\ \E p \in FeedPcs, f \in {fits, fits + 1} :
           /\ pc' = p
           /\ fits' = f
           /\ <<p, f>> # Position

\* the constructor and every fit call run to their end, and the caller
\* keeps calling fit
SpecFeed == InitFeed /\ [][NextFeed]_vars /\ WF_Position(FeedAdvance)

---------------------------------------------------------------------------
(* The end-to-end scenario: initial_replay_size = 100, warmup_transitions =
   50, max_replay_size = 1000, one non-absorbing transition fed per call *)

ScenarioFits == 160

InitScenario ==
    /\ pc = "new"
    /\ cfg \in [tau : {R(0), R(1)}, gamma : Gammas,
                initial_replay_size : {100},
                warmup_transitions : {50},
                max_replay_size : {1000}]
    /\ critic_params \in [n_models : {0, 2}, prediction : {"min"}]
    /\ critic = Unbuilt
    /\ target = Unbuilt
    /\ actor = <<>>
    /\ log_alpha = 0
    /\ replay = 0
    /\ batch = NoRows
    /\ log_prob = NoRows
    /\ loss = NoLoss
    /\ next_sample = NoRows
    /\ q = NoRows
    /\ trace = <<>>
    /\ earlier = {}
    /\ target0 = <<>>
    /\ fits = 0

\* the steps of the optimizers stay small over the run: the parameters of
\* the actor, of the critic members and log_alpha stay near their start
ScenarioWindow ==
    /\ actor # <<>> => actor[1] \in -1 .. 1
    /\ log_alpha \in -2 .. 2
    /\ \A i \in DOMAIN critic.weights :
           RLe(R(-3), critic.weights[i]) /\ RLe(critic.weights[i], R(3))

ScenarioAdd == FitAddBounded(1, ScenarioFits)

NextScenario ==
    /\ \/ CtorCriticParams
       \/ CtorCritic
       \/ CtorTargetCritic
       \/ CtorActor
       \/ CtorInitTarget
       \/ ScenarioAdd
       \/ FeedGet
       \/ FitActor
       \/ FitAlpha
       \/ FitNextQ
       \/ FitCritic
       \/ FitTarget
    /\ ScenarioWindow'

SpecScenario == InitScenario /\ [][NextScenario]_vars

---------------------------------------------------------------------------
(* SACPolicy on its own: one policy object with any bounds min_a <= max_a,
   asked for actions with and without their log-probability *)

ActionBounds == -2 .. 2
PolicyMeans == -2 .. 2
PolicyLogScales == -2 .. 1
PolicyNoise == -2 .. 2

PolicyRest == <<critic_params, critic, target, log_alpha, replay, batch,
                log_prob, loss, q, trace, earlier, target0, fits>>

InitPolicy ==
    /\ pc = "policy"
    /\ cfg \in {b \in [min_a : ActionBounds, max_a : ActionBounds] :
                    b.min_a <= b.max_a}
    /\ actor \in PolicyMeans \X PolicyLogScales
    /\ critic_params = [n_models |-> 0, prediction |-> "absent"]
    /\ critic = Unbuilt
    /\ target = Unbuilt
    /\ log_alpha = 0
    /\ replay = 0
    /\ batch = NoRows
    /\ log_prob = NoRows
    /\ loss = NoLoss
    /\ next_sample = NoRows
    /\ q = NoRows
    /\ trace = <<>>
    /\ earlier = {}
    /\ target0 = <<>>
    /\ fits = 0

PolicyPcs == {"policy", "drawn", "computed"}

\* draw_action on a batch of states: the actions alone
PolicyDrawAction ==
    /\ pc \in PolicyPcs
    /\ \E eps \in [Rows -> PolicyNoise] :
           next_sample' = [i \in Rows |->
               <<DrawAction(actor, eps[i], cfg.min_a, cfg.max_a)>>]
    /\ pc' = "drawn"
    /\ UNCHANGED <<cfg, actor, PolicyRest>>

\* compute_action_and_log_prob on a batch of states
PolicyComputeActionAndLogProb ==
    /\ pc \in PolicyPcs
    /\ \E eps \in [Rows -> PolicyNoise] :
           next_sample' = [i \in Rows |->
               ComputeActionAndLogProbT(actor, eps[i], cfg.min_a, cfg.max_a)]
    /\ pc' = "computed"
    /\ UNCHANGED <<cfg, actor, PolicyRest>>

NextPolicy ==
    \/ PolicyDrawAction
    \/ PolicyComputeActionAndLogProb

SpecPolicy == InitPolicy /\ [][NextPolicy]_vars

---------------------------------------------------------------------------
(* Properties *)

CtorPcs == {"new", "AssertionError", "build_critic", "build_target",
            "build_actor", "init_target"}
Constructed == pc \notin CtorPcs
Warming(size) == ReplayInitialized(size) /\ ~InLearning(size)
Learning(size) == ReplayInitialized(size) /\ InLearning(size)
Returned == pc = "idle" /\ fits > 0

\* C1: the phase never moves backwards: once a fit call has run the critic
\* fit, every later fit call runs it too, and once a fit call has run the
\* actor and temperature updates, every later fit call runs them too.
C1_PhaseMonotonic ==
    Returned =>
        /\ "critic" \in earlier => "critic" \in Range(trace)
        /\ "actor" \in earlier => "actor" \in Range(trace)
        /\ "alpha" \in earlier => "alpha" \in Range(trace)

C1_Witness ==
    /\ Returned
    /\ {"actor", "alpha", "critic"} \subseteq earlier
    /\ {"actor", "alpha", "critic"} \subseteq Range(trace)

\* C2: in a fit call that finds the replay memory still not initialized
\* after adding its dataset, no step changes the actor, the online critic,
\* the target critic or log_alpha: only the replay memory changes.
C2_CollectingFrame ==
    [][(Constructed /\ ~ReplayInitialized(replay'))
          => /\ actor' = actor
             /\ critic' = critic
             /\ target' = target
             /\ log_alpha' = log_alpha
             /\ pc' = "idle"]_vars

C2_Witness ==
    /\ Returned
    /\ replay > 0
    /\ ~ReplayInitialized(replay)

SoftUpdated(i) ==
    RSub(target'.weights[i], target.weights[i])
        = RMul(cfg.tau, RSub(critic.weights[i], target.weights[i]))

\* C3 as stated: in a fit call made while the replay memory is initialized
\* and its size is <= warmup_transitions, the actor and log_alpha are
\* unchanged, the critic fit and the soft update are both performed, and
\* the critic and the target-critic parameters do change.
C3_AsStated ==
    [][(Constructed /\ pc # "idle" /\ Warming(replay))
          => /\ actor' = actor
             /\ log_alpha' = log_alpha
             /\ pc' = "idle" => trace' = <<"critic", "target">>
             /\ pc = "critic" => \A i \in Members :
                    critic'.weights[i] # critic.weights[i]
             /\ pc = "target" => \A i \in Members :
                    target'.weights[i] # target.weights[i]]_vars

\* C3 amended: as above, but member i of the target changes exactly when
\* tau * (online_i - target_i) is not zero: it becomes
\* tau * online_i + (1 - tau) * target_i, which for tau = 0 is target_i.
C3_WarmingFrame ==
    [][(Constructed /\ pc # "idle" /\ Warming(replay))
          => /\ actor' = actor
             /\ log_alpha' = log_alpha
             /\ pc' = "idle" => trace' = <<"critic", "target">>
             /\ pc = "critic" => \A i \in Members :
                    critic'.weights[i] # critic.weights[i]
             /\ pc = "target" => \A i \in Members :
                    /\ SoftUpdated(i)
                    /\ cfg.tau = R(0) => target'.weights[i] = target.weights[i]
                    /\ target'.weights[i] # target.weights[i]
                          <=> /\ cfg.tau # R(0)
                              /\ critic.weights[i] # target.weights[i]]_vars

C3_Witness ==
    /\ Returned
    /\ Warming(replay)
    /\ trace = <<"critic", "target">>
    /\ cfg.tau = R(0)
    /\ target.weights # critic.weights

\* C4: in a fit call in the LEARNING phase the four sub-updates happen
\* once each, in the order actor step, temperature step, critic fit, soft
\* update.
C4_LearningOrder ==
    (Constructed /\ fits > 0 /\ Learning(replay)) =>
        /\ pc \in {"get", "actor"} => trace = <<>>
        /\ pc = "alpha" => trace = <<"actor">>
        /\ pc \in {"next_q", "critic"} => trace = <<"actor", "alpha">>
        /\ pc = "target" => trace = <<"actor", "alpha", "critic">>
        /\ pc = "idle" => trace = <<"actor", "alpha", "critic", "target">>

C4_Witness ==
    /\ Returned
    /\ Learning(replay)
    /\ Len(trace) = 4

\* C5: only the constructor (building the ensemble, _init_target) and the
\* soft update write the target critic's weights: the actor step, the
\* temperature step and the critic fit leave every member unchanged.
C5_TargetWriters ==
    [][/\ target' # target => pc \in {"build_target", "init_target", "target"}
       /\ pc \in {"actor", "alpha", "critic"} => target' = target]_vars

C5_Witness ==
    /\ pc = "target"
    /\ trace = <<"actor", "alpha", "critic">>
    /\ target.weights # critic.weights

\* C6: from the end of the constructor until the first fit call that finds
\* the replay memory initialized, target member i has exactly the weights
\* of online member i, for both members.
C6_TargetIsCopy ==
    (Constructed /\ ~ReplayInitialized(replay)) =>
        /\ Len(target.weights) = 2
        /\ Len(critic.weights) = 2
        /\ \A i \in Members : target.weights[i] = critic.weights[i]

C6_Witness ==
    /\ Returned
    /\ ~ReplayInitialized(replay)
    /\ critic.weights[1] # critic.weights[2]

\* C7: in every fit call that finds the replay memory initialized, the soft
\* update runs right after the critic fit and moves each member on its own:
\* target_i - old target_i = tau * (online_i - old target_i), online_i being
\* the weights the critic fit of this call left.
C7_SoftUpdate ==
    [][/\ pc = "target" =>
            /\ trace[Len(trace)] = "critic"
            /\ critic' = critic
            /\ \A i \in Members : SoftUpdated(i)
       /\ (pc = "critic" /\ ReplayInitialized(replay)) => pc' = "target"
       /\ (Constructed /\ pc' = "idle" /\ ReplayInitialized(replay'))
             => (pc = "target" \/ pc' = pc)]_vars

C7_Witness ==
    /\ Returned
    /\ cfg.tau = <<1, 2>>
    /\ "target" \in earlier
    /\ trace[Len(trace)] = "target"
    /\ target.weights[1] # target.weights[2]

\* C8: with tau = 1 the target weights equal the online weights at the end
\* of every fit call; with tau = 0 the target weights keep the values the
\* constructor gave them, whatever fit calls are made.
C8_TauExtremes ==
    /\ (Returned /\ cfg.tau = R(1)) => target.weights = critic.weights
    /\ (Constructed /\ cfg.tau = R(0)) => target.weights = target0

C8_Witness ==
    /\ Returned
    /\ cfg.tau = R(1)
    /\ "target" \in earlier
    /\ "target" \in Range(trace)
    /\ target.weights # target0

\* the bootstrapped value of row i before masking
Bootstrap(i) ==
    RSub(RMin(Member(target.weights[1], next_sample[i][1]),
              Member(target.weights[2], next_sample[i][1])),
         RMul(Alpha(log_alpha), next_sample[i][2]))

\* C9: the regression target handed to critic.fit is, for a row with
\* absorbing = 1, that row's reward, and for a row with absorbing = 0,
\* reward + gamma * (min target-critic prediction at a' - alpha *
\* log_prob(a')).
C9_RegressionTarget ==
    pc = "critic" =>
        \A i \in Rows :
            /\ batch[i].absorbing = 1 => q[i] = R(batch[i].reward)
            /\ batch[i].absorbing = 0 =>
                  q[i] = RAdd(R(batch[i].reward),
                              RMul(cfg.gamma, Bootstrap(i)))

C9_Witness ==
    /\ pc = "critic"
    /\ batch[1].absorbing = 1
    /\ batch[2].absorbing = 0
    /\ Bootstrap(1) # R(0)
    /\ Bootstrap(2) # R(0)
    /\ log_alpha # 0

\* C10: critic_params with n_models other than 2 or prediction other than
\* 'min' make the constructor fail on its assert before any approximator
\* is built; an absent key is set to 2 / 'min'; so every constructed agent
\* has two online and two target members, both with 'min' prediction.
C10_CriticParams ==
    /\ (critic_params.n_models \notin {0, 2}
          \/ critic_params.prediction \notin {"absent", "min"})
        => /\ pc \in {"new", "AssertionError"}
           /\ critic = Unbuilt
           /\ target = Unbuilt
           /\ actor = <<>>
    /\ pc = "AssertionError" =>
           /\ critic = Unbuilt
           /\ target = Unbuilt
           /\ actor = <<>>
    /\ pc \notin {"new", "AssertionError"} =>
           critic_params = [n_models |-> 2, prediction |-> "min"]
    /\ Constructed =>
           /\ Len(critic.weights) = 2
           /\ Len(target.weights) = 2
           /\ critic.prediction = "min"
           /\ target.prediction = "min"

C10_Witness ==
    /\ pc = "AssertionError"
    /\ critic_params.n_models = 2
    /\ critic_params.prediction = "mean"

\* C12: the action returned by compute_action_and_log_prob_t carries the
\* gradient of the mean and log-scale parameters, so the actor loss of a
\* learning call depends on them both through log_prob and through
\* min(Q0(s, a_new), Q1(s, a_new)).
C12_AsStated ==
    pc = "alpha" =>
        /\ PolicyParams \subseteq loss.grad_log_prob
        /\ PolicyParams \subseteq loss.grad_q

\* the pre-image of a squashed value under Tanh
Atanh(t) == RDiv(t, RSub(R(1), <<Abs(t[1]), t[2]>>))

\* the squashed value a that an action a_true of the policy stands for
Squashed(a_true) ==
    RDiv(RSub(a_true, CentralA(cfg.min_a, cfg.max_a)),
         DeltaA(cfg.min_a, cfg.max_a))

\* C13: for any bounds min_a <= max_a, every action the policy returns,
\* with or without its log-probability, lies within [min_a, max_a].
C13_ActionWithinBounds ==
    pc \in {"drawn", "computed"} =>
        \A i \in DOMAIN next_sample :
            /\ RLe(R(cfg.min_a), next_sample[i][1])
            /\ RLe(next_sample[i][1], R(cfg.max_a))

C13_Witness ==
    /\ pc = "drawn"
    /\ cfg.min_a < cfg.max_a
    /\ cfg.max_a - cfg.min_a = 1
    /\ \E i \in DOMAIN next_sample :
           /\ next_sample[i][1] # CentralA(cfg.min_a, cfg.max_a)
           /\ RLe(<<-1, 2>>, RSub(R(cfg.max_a), next_sample[i][1]))
           /\ RLe(RSub(R(cfg.max_a), next_sample[i][1]), <<1, 8>>)

C15_TargetFromMutatedState ==
    pc = "critic" =>
        /\ Learning(replay) => trace = <<"actor", "alpha">>
        /\ Warming(replay) => trace = <<>>
        /\ \E eps \in [Rows -> Noise] :
               \A i \in Rows :
                   /\ next_sample[i] = ComputeActionAndLogProb(actor, eps[i])
                   /\ q[i] = Target(batch[i].reward, cfg.gamma,
                                    NextQ(target, log_alpha, next_sample[i],
                                          batch[i].absorbing))

C15_Witness ==
    /\ pc = "critic"
    /\ trace = <<"actor", "alpha">>
    /\ cfg.tau \notin {R(0)}
    /\ UpdateTarget(target, critic, cfg.tau) # target
    /\ \E i \in Rows : batch[i].absorbing = 0

\* C17: in a learning call, between the actor step and the temperature
\* step, the log-probability batch is the one sampled from the policy as
\* it was before the actor step (a policy that the actor steps of the
\* earlier calls, fewer than fits, have moved), the loss is the one
\* computed from that batch with the alpha still in force, and the
\* temperature step computes the new log_alpha from that same batch and
\* leaves the actor alone.
C17_SameLogProb ==
    /\ [](pc = "alpha" =>
             /\ trace = <<"actor">>
             /\ \E g \in ActorSteps, eps \in [Rows -> Noise] :
                    LET old == <<actor[1] - g[1], actor[2] - g[2]>>
                        smp == [i \in Rows |->
                                   ComputeActionAndLogProb(old, eps[i])]
                        action_new == [i \in Rows |-> smp[i][1]]
                    IN  /\ Abs(old[1]) < fits
                        /\ log_prob = [i \in Rows |-> smp[i][2]]
                        /\ loss.value =
                               Loss(critic, log_alpha, action_new, log_prob))
    /\ [][pc = "alpha" =>
             /\ log_alpha' = UpdateAlpha(log_alpha, log_prob)
             /\ actor' = actor]_vars

C17_Witness ==
    /\ pc = "next_q"
    /\ trace = <<"actor", "alpha">>
    /\ log_alpha # 0
    /\ fits = 2

\* C18: when warmup_transitions < initial_replay_size, an initialized
\* memory is never in warm-up, and no fit call runs the critic fit without
\* having run the actor step and the temperature step before it in the
\* same call.
C18_NoWarmupBelowInitial ==
    cfg.warmup_transitions < cfg.initial_replay_size =>
        /\ pc \in {"next_q", "critic"} => trace = <<"actor", "alpha">>
        /\ "critic" \in Range(trace) =>
               /\ Len(trace) >= 3
               /\ SubSeq(trace, 1, 3) = <<"actor", "alpha", "critic">>

C18_Witness ==
    /\ cfg.warmup_transitions < cfg.initial_replay_size
    /\ fits = 1
    /\ trace = <<"actor", "alpha", "critic", "target">>
    /\ earlier = {}

\* C16: when a sub-step of a learning call raises before the soft update,
\* the call ends there: the replay memory keeps the size it has since the
\* call appended its dataset, the actor parameters and log_alpha keep the
\* values the steps that already ran gave them, the target critic is not
\* written, and no step of the call follows (the raised states have no
\* successor).
C16_FailurePropagates ==
    [][(/\ pc \in Failing \ {"target"}
        /\ Learning(replay)
        /\ pc' \in RaisedPcs) =>
           /\ replay' = replay
           /\ actor' = actor
           /\ log_alpha' = log_alpha
           /\ target' = target
           /\ trace' = Append(trace, "raise")
           /\ "target" \notin Range(trace')]_vars

C16_Witness ==
    /\ pc = "raised_critic"
    /\ Learning(replay)
    /\ trace = <<"actor", "alpha", "raise">>
    /\ critic.weights[1] # critic.weights[2]
    /\ UpdateTarget(target, critic, cfg.tau) # target
    /\ actor # <<0, 0>>
    /\ log_alpha # 0

\* the replay size never exceeds max_replay_size
ReplayBounded == replay <= cfg.max_replay_size

\* with warmup_transitions >= max_replay_size the agent is never in
\* LEARNING, no call runs the actor or the temperature step, and a
\* constructed agent has its construction-time actor and log_alpha
NeverLearning ==
    cfg.warmup_transitions >= cfg.max_replay_size =>
        /\ ~Learning(replay)
        /\ pc \notin {"actor", "alpha"}
        /\ {"actor", "alpha"} \cap (Range(trace) \cup earlier) = {}
        /\ Constructed => actor = <<0, 0>> /\ log_alpha = 0

\* C19 as stated: the replay size never exceeds max_replay_size; with
\* warmup_transitions >= max_replay_size LEARNING is never reached and the
\* actor and log_alpha keep their construction-time values; with
\* warmup_transitions < max_replay_size and non-empty datasets kept being
\* fed, a call eventually runs in LEARNING.
C19_AsStated ==
    /\ [](ReplayBounded /\ NeverLearning)
    /\ cfg.warmup_transitions < cfg.max_replay_size => <>(pc = "actor")

\* C19, amended: as above, where LEARNING is eventually reached if
\* moreover initial_replay_size <= max_replay_size, and is never reached
\* if initial_replay_size > max_replay_size.
C19_LearningReached ==
    /\ [](ReplayBounded /\ NeverLearning)
    /\ (/\ cfg.warmup_transitions < cfg.max_replay_size
        /\ cfg.initial_replay_size <= cfg.max_replay_size)
           => <>(pc = "actor")
    /\ cfg.initial_replay_size > cfg.max_replay_size
           => [](pc \notin {"get", "actor"})

C19_Witness ==
    /\ pc = "idle"
    /\ fits = FeedLimit
    /\ replay = cfg.max_replay_size
    /\ cfg.warmup_transitions = cfg.max_replay_size
    /\ cfg.initial_replay_size <= cfg.max_replay_size
    /\ earlier = {"critic", "target"}
    /\ actor = <<0, 0>>

\* C11: with initial_replay_size = 100, warmup_transitions = 50 and one
\* transition fed per fit call: through the first 99 calls the memory is
\* not initialized and the critic has its construction-time parameters;
\* the 100th call makes the size 100, finds the memory initialized and
\* runs the first critic fit of the run, which changes the critic; and
\* the 160th call (size 160 > 50) takes an actor step that changes the
\* parameters of the mean approximator.
C11_Scenario ==
    [][/\ (Constructed /\ fits < 100) =>
              /\ pc = "idle"
              /\ replay = fits
              /\ ~ReplayInitialized(replay)
              /\ critic.weights = target0
              /\ earlier = {} /\ trace = <<>>
       /\ (fits = 99 /\ fits' = 100) =>
              /\ replay' = 100
              /\ ReplayInitialized(replay')
              /\ pc' = "get"
       /\ (fits = 100 /\ pc = "critic") =>
              /\ "critic" \notin earlier
              /\ critic.weights = target0
              /\ critic'.weights # critic.weights
       /\ (fits = 160 /\ pc = "actor") =>
              /\ replay = 160
              /\ actor'[1] # actor[1]]_vars

C11_Witness ==
    /\ fits = 160
    /\ pc = "alpha"
    /\ replay = 160
    /\ trace = <<"actor">>
    /\ earlier = {"actor", "alpha", "critic", "target"}

===========================================================================
